---- MODULE Spec2Model ----
(***************************************************************************)
(* A model of rbgg, a client binding for the boardgamegeek.com XML APIs.   *)
(*                                                                         *)
(* Text is modelled as a sequence of one-character strings, so that        *)
(* percent-encoding, joining and slash-stripping work on characters.       *)
(* An Option<T> is a sequence of length 0 (None) or 1 (Some(v)).           *)
(* The variable run holds one evaluation of a function of the library made *)
(* on its own, outside a call: the function, its arguments and its result. *)
(* A Params (HashMap<String, String>) is a function from keys to values;   *)
(* the order in which a HashMap is iterated is an explicit input.          *)
(***************************************************************************)
EXTENDS Integers, Sequences, FiniteSets, TLC

VARIABLES client1, client2, calls, run

vars == <<client1, client2, calls, run>>

(* ------------------------------ bounds ------------------------------- *)

\* The server answers at most this many GETs of one call.
MaxGets == 3

\* The concurrent calls in flight on the two clients.
Calls == {"c1", "c2"}

\* No function has been evaluated on its own.
NoRun == [fn |-> "none", args |-> <<>>, ret |-> <<>>]

(* ------------------------------ Option ------------------------------- *)

None == <<>>

Some(v) == <<v>>

is_some(o) == Len(o) = 1

unwrap(o) == o[1]

(* ------------------------------- text -------------------------------- *)

RECURSIVE join(_, _)
\* [String]::join(sep)
join(parts, sep) ==
    IF parts = <<>> THEN <<>>
    ELSE IF Len(parts) = 1 THEN parts[1]
    ELSE parts[1] \o sep \o join(Tail(parts), sep)

Digits == <<"0", "1", "2", "3", "4", "5", "6", "7", "8", "9">>

RECURSIVE to_string(_)
\* usize::to_string: the decimal digits of n, most significant first.
to_string(n) ==
    IF n < 10 THEN <<Digits[n + 1]>>
    ELSE to_string(n \div 10) \o <<Digits[(n % 10) + 1]>>

\* The bytes urlencoding::encode leaves as they are.
Unreserved ==
    {"a", "b", "c", "d", "e", "f", "g", "h", "i", "j", "k", "l", "m",
     "n", "o", "p", "q", "r", "s", "t", "u", "v", "w", "x", "y", "z",
     "A", "B", "C", "D", "E", "F", "G", "H", "I", "J", "K", "L", "M",
     "N", "O", "P", "Q", "R", "S", "T", "U", "V", "W", "X", "Y", "Z",
     "0", "1", "2", "3", "4", "5", "6", "7", "8", "9",
     "-", "_", ".", "~"}

\* The escape of every other character the model uses: '%' and the two
\* upper-case hexadecimal digits of its byte.
Escaped ==
    [ch \in {" ", "=", "&", "/", "?", "%", ",", ":", "+", "#"} |->
        CASE ch = " " -> <<"%", "2", "0">>
          [] ch = "=" -> <<"%", "3", "D">>
          [] ch = "&" -> <<"%", "2", "6">>
          [] ch = "/" -> <<"%", "2", "F">>
          [] ch = "?" -> <<"%", "3", "F">>
          [] ch = "%" -> <<"%", "2", "5">>
          [] ch = "," -> <<"%", "2", "C">>
          [] ch = ":" -> <<"%", "3", "A">>
          [] ch = "+" -> <<"%", "2", "B">>
          [] ch = "#" -> <<"%", "2", "3">>]

RECURSIVE encode(_)
\* urlencoding::encode
encode(s) ==
    IF s = <<>> THEN <<>>
    ELSE (IF Head(s) \in Unreserved THEN <<Head(s)>> ELSE Escaped[Head(s)])
         \o encode(Tail(s))

(* ------------------------------ utils -------------------------------- *)

\* The orders in which a HashMap with key set K can be iterated.
Orders(K) ==
    {o \in [1..Cardinality(K) -> K] : \A k \in K : \E i \in DOMAIN o : o[i] = k}

\* Params::new()
Params_new == [k \in {} |-> <<>>]

\* qs_part, if the key were written as it is.
qs_part_raw_key(k, v) == k \o <<"=">> \o encode(v)

\* One part of the query string: encode(k) + "=" + encode(v).
qs_part(k, v) == encode(k) \o <<"=">> \o encode(v)

\* params2qs, if every part were followed by its own "&".
params2qs_trailing_amp(params, order) ==
    join([i \in DOMAIN order |->
            qs_part(order[i], params[order[i]]) \o <<"&">>], <<>>)

\* params2qs, with the HashMap iterated in the given order.
params2qs(params, order) ==
    join([i \in DOMAIN order |-> qs_part(order[i], params[order[i]])], <<"&">>)

\* get_opts, if the caller's options were never taken over.
get_opts_dropped(options) == Params_new

\* get_opts
get_opts(options) == IF is_some(options) THEN unwrap(options) ELSE Params_new

(* ------------------------------ clients ------------------------------ *)

\* str::strip_suffix('/'): Some(the text without its last character) when
\* the text ends with one '/', None otherwise.
strip_suffix(s) ==
    IF Len(s) > 0 /\ s[Len(s)] = "/" THEN Some(SubSeq(s, 1, Len(s) - 1)) ELSE None

RECURSIVE trim_start_matches(_)
trim_start_matches(s) ==
    IF Len(s) > 0 /\ Head(s) = "/" THEN trim_start_matches(Tail(s)) ELSE s

RECURSIVE trim_end_matches(_)
trim_end_matches(s) ==
    IF Len(s) > 0 /\ s[Len(s)] = "/"
    THEN trim_end_matches(SubSeq(s, 1, Len(s) - 1)) ELSE s

\* str::trim_matches('/')
trim_matches(s) == trim_end_matches(trim_start_matches(s))

DefaultUrlBase ==
    <<"h", "t", "t", "p", "s", ":", "/", "/", "b", "o", "a", "r", "d", "g",
      "a", "m", "e", "g", "e", "e", "k", ".", "c", "o", "m">>

\* The url_base both constructors compute.
new_url_base(url_base) ==
    IF is_some(url_base)
    THEN (IF is_some(strip_suffix(unwrap(url_base)))
          THEN unwrap(strip_suffix(unwrap(url_base)))
          ELSE unwrap(url_base))
    ELSE DefaultUrlBase

\* The api_prefix both constructors compute, given the default of each.
new_api_prefix(api_prefix, default) ==
    IF is_some(api_prefix) THEN trim_matches(unwrap(api_prefix)) ELSE default

\* Client1::new
Client1_new(url_base, api_prefix) ==
    [url_base |-> new_url_base(url_base),
     api_prefix |-> new_api_prefix(api_prefix, <<"x", "m", "l", "a", "p", "i">>)]

\* Client2::new, if its default prefix were the one of Client1.
Client2_new_prefix_of_1(url_base, api_prefix) ==
    [url_base |-> new_url_base(url_base),
     api_prefix |-> new_api_prefix(api_prefix, <<"x", "m", "l", "a", "p", "i">>)]

\* Client2::new
Client2_new(url_base, api_prefix) ==
    [url_base |-> new_url_base(url_base),
     api_prefix |-> new_api_prefix(api_prefix, <<"x", "m", "l", "a", "p", "i", "2">>)]

\* merge_opts, if a default were inserted only where the caller has no
\* value of its own.
merge_opts_caller_wins(params, default_params) ==
    LET opts == get_opts(params)
        defs == get_opts(default_params)
    IN  [k \in DOMAIN opts \cup DOMAIN defs |->
            IF k \in DOMAIN opts THEN opts[k] ELSE defs[k]]

\* The options of both get_full_url: the caller's, then every default
\* parameter inserted over them.
merge_opts(params, default_params) ==
    LET opts == get_opts(params)
        defs == get_opts(default_params)
    IN  [k \in DOMAIN opts \cup DOMAIN defs |->
            IF k \in DOMAIN defs THEN defs[k] ELSE opts[k]]

\* Client1::gen_url, if the operation name and the add-ons were
\* percent-encoded on their way into the URL.
Client1_gen_url_encoded_path(self, path, options, uri_addons, order) ==
    self.url_base \o <<"/">> \o self.api_prefix \o <<"/">> \o encode(path)
    \o (IF is_some(uri_addons)
        THEN <<"/">> \o join([i \in DOMAIN unwrap(uri_addons) |->
                                encode(unwrap(uri_addons)[i])], <<",">>)
        ELSE <<>>)
    \o <<"?">>
    \o (IF is_some(options) THEN params2qs(unwrap(options), order) ELSE <<>>)

\* Client1::gen_url
Client1_gen_url(self, path, options, uri_addons, order) ==
    self.url_base \o <<"/">> \o self.api_prefix \o <<"/">> \o path
    \o (IF is_some(uri_addons) THEN <<"/">> \o join(unwrap(uri_addons), <<",">>)
        ELSE <<>>)
    \o <<"?">>
    \o (IF is_some(options) THEN params2qs(unwrap(options), order) ELSE <<>>)

\* Client1::get_full_url
Client1_get_full_url(self, path, params, default_params, uri_addons, order) ==
    Client1_gen_url(self, path, Some(merge_opts(params, default_params)),
                    uri_addons, order)

\* Client2::gen_url, if the "?" were written only ahead of a query.
Client2_gen_url_no_bare_qmark(self, path, options, order) ==
    self.url_base \o <<"/">> \o self.api_prefix \o <<"/">> \o path
    \o (IF is_some(options) /\ DOMAIN unwrap(options) # {}
        THEN <<"?">> \o params2qs(unwrap(options), order)
        ELSE <<>>)

\* Client2::gen_url
Client2_gen_url(self, path, options, order) ==
    self.url_base \o <<"/">> \o self.api_prefix \o <<"/">> \o path \o <<"?">>
    \o (IF is_some(options) THEN params2qs(unwrap(options), order) ELSE <<>>)

\* Client2::get_full_url
Client2_get_full_url(self, path, params, default_params, order) ==
    Client2_gen_url(self, path, Some(merge_opts(params, default_params)), order)

(* ------------------------- the request executor ---------------------- *)

\* What the server, or the connection, answers to one GET: a transport
\* failure (no response) or a response with a status code.
TransportFailure == [ok |-> FALSE, status |-> 0]

Response(status) == [ok |-> TRUE, status |-> status]

Statuses == {200, 202, 301, 404, 500}

GetOutcomes == {TransportFailure} \cup {Response(s) : s \in Statuses}

\* The bodies a response can carry; reading a body can fail as well.
WellFormed == {"<items/>"}

Bodies == WellFormed \cup {"<items"}

TextFailure == [ok |-> FALSE, val |-> ""]

Text(body) == [ok |-> TRUE, val |-> body]

TextOutcomes == {TextFailure} \cup {Text(b) : b \in Bodies}

\* Result<Value>: Ok(value) or Err(error); the error is a reqwest::Error
\* raised by `?`, or the message of anyhow!.
Ok(v) == [tag |-> "Ok", kind |-> "Value", val |-> v]

ReqwestError == [tag |-> "Err", kind |-> "reqwest::Error", val |-> "transport"]

ConversionError ==
    [tag |-> "Err", kind |-> "anyhow!", val |-> "Failed to convert to JSON"]

\* xmltojson::to_json, the external parser: the value of a well-formed
\* document, an error for any other text.
to_json(data) ==
    IF data = "<items/>" THEN Ok("{\"items\":null}")
    ELSE [tag |-> "Err", kind |-> "xmltojson::Error", val |-> data]

\* Duration::from_secs
Duration_from_secs(n) == n

\* A call that has not been made yet.
NewCall ==
    [pc |-> "Idle", mode |-> "none", url |-> <<>>, gets |-> 0, reqs |-> <<>>,
     sleeps |-> <<>>, parses |-> <<>>, hist |-> <<>>, text |-> None,
     result |-> None, trace |-> <<>>, holds |-> FALSE, args |-> <<>>]

\* One GET to the call's url goes out and the call waits for the answer.
send_get(call) ==
    [call EXCEPT !.pc = "Requesting", !.gets = @ + 1,
                 !.reqs = Append(@, call.url),
                 !.trace = Append(@, "Requesting")]

\* reqwest::get(url).await: the task waits without the runtime's worker.
reqwest_get(call) == [send_get(call) EXCEPT !.holds = FALSE]

\* reqwest::blocking::get(url): the calling thread waits.
reqwest_blocking_get(call) == [send_get(call) EXCEPT !.holds = TRUE]

suspend(call, d) ==
    [call EXCEPT !.pc = "Retrying", !.sleeps = Append(@, d),
                 !.trace = Append(@, "Retrying")]

\* tokio::time::sleep(d).await: the task is parked on a timer and the
\* runtime's worker is free for other tasks.
time_sleep(call, d) == [suspend(call, d) EXCEPT !.holds = FALSE]

\* std::thread::sleep(d): the thread the call runs on sleeps.
thread_sleep(call, d) == [suspend(call, d) EXCEPT !.holds = TRUE]

\* The function returns: the call is over and occupies nothing.
return(call, pc, result) ==
    [call EXCEPT !.pc = pc, !.result = Some(result), !.holds = FALSE,
                 !.trace = Append(@, pc)]

\* The loop is left with a response to process.
break(call) ==
    [call EXCEPT !.pc = "Completed", !.trace = Append(@, "Completed")]

\* convert, if a failed conversion were reported like a failed request.
convert_as_transport(call, data) ==
    LET parsed == [call EXCEPT !.parses = Append(@, data)]
        res == to_json(data)
    IN  IF res.tag = "Ok" THEN return(parsed, "Done", res)
        ELSE return(parsed, "Done", ReqwestError)

\* convert, if the text were parsed once to test it and once for the value.
convert_twice(call, data) ==
    LET parsed == [call EXCEPT !.parses = Append(Append(@, data), data)]
        res == to_json(data)
    IN  IF res.tag = "Ok" THEN return(parsed, "Done", res)
        ELSE return(parsed, "Done", ConversionError)

\* to_json(&data) and the match on its result.
convert(call, data) ==
    LET parsed == [call EXCEPT !.parses = Append(@, data)]
        res == to_json(data)
    IN  IF res.tag = "Ok" THEN return(parsed, "Done", res)
        ELSE return(parsed, "Done", ConversionError)

\* get_json_resp_loop, if the loop went round again without sleeping.
get_json_resp_loop_no_sleep(call, outcome) ==
    LET got == [call EXCEPT !.hist = Append(@, outcome)]
    IN  IF ~outcome.ok THEN return(got, "Failed", ReqwestError)
        ELSE IF outcome.status = 202
        THEN [got EXCEPT !.pc = "Retrying", !.trace = Append(@, "Retrying"),
                         !.holds = FALSE]
        ELSE [break(got) EXCEPT !.holds = FALSE]

\* get_json_resp_loop, if the loop gave up after two 202 answers.
get_json_resp_loop_capped(call, outcome) ==
    LET got == [call EXCEPT !.hist = Append(@, outcome)]
    IN  IF ~outcome.ok THEN return(got, "Failed", ReqwestError)
        ELSE IF outcome.status = 202
        THEN (IF Len(got.hist) >= 2 THEN return(got, "Failed", ReqwestError)
              ELSE time_sleep(got, Duration_from_secs(1)))
        ELSE [break(got) EXCEPT !.holds = FALSE]

\* get_json_resp_loop, if a failed GET were retried like a 202.
get_json_resp_loop_retry_error(call, outcome) ==
    LET got == [call EXCEPT !.hist = Append(@, outcome)]
    IN  IF ~outcome.ok \/ outcome.status = 202
        THEN time_sleep(got, Duration_from_secs(1))
        ELSE [break(got) EXCEPT !.holds = FALSE]

\* get_json_resp_loop, if it slept with std::thread::sleep.
get_json_resp_loop_thread_sleep(call, outcome) ==
    LET got == [call EXCEPT !.hist = Append(@, outcome)]
    IN  IF ~outcome.ok THEN return(got, "Failed", ReqwestError)
        ELSE IF outcome.status = 202 THEN thread_sleep(got, Duration_from_secs(1))
        ELSE [break(got) EXCEPT !.holds = FALSE]

\* get_json_resp: the answer to the GET of line 25 and the rest of that
\* loop iteration.
get_json_resp_loop(call, outcome) ==
    LET got == [call EXCEPT !.hist = Append(@, outcome)]
    IN  IF ~outcome.ok THEN return(got, "Failed", ReqwestError)
        ELSE IF outcome.status = 202 THEN time_sleep(got, Duration_from_secs(1))
        ELSE [break(got) EXCEPT !.holds = FALSE]

\* get_json_resp_text, if a body that cannot be read were awaited for
\* ever and its error never returned.
get_json_resp_text_hangs(call, text) ==
    LET got == [call EXCEPT !.text = Some(text)]
    IN  IF ~text.ok THEN [got EXCEPT !.pc = "Reading"]
        ELSE convert(got, text.val)

\* get_json_resp: resp.text().await? and the conversion.
get_json_resp_text(call, text) ==
    LET got == [call EXCEPT !.text = Some(text)]
    IN  IF ~text.ok THEN return(got, "Failed", ReqwestError)
        ELSE convert(got, text.val)

\* get_json_resp_b_loop, if each sleep were longer than the one before.
get_json_resp_b_loop_backoff(call, outcome) ==
    LET got == [call EXCEPT !.hist = Append(@, outcome)]
    IN  IF ~outcome.ok THEN return(got, "Failed", ReqwestError)
        ELSE IF outcome.status = 202
        THEN thread_sleep(got, Duration_from_secs(Len(got.hist)))
        ELSE [break(got) EXCEPT !.holds = TRUE]

\* get_json_resp_b_loop, if a 4xx or 5xx status were turned into an error
\* (reqwest's error_for_status).
get_json_resp_b_loop_error_for_status(call, outcome) ==
    LET got == [call EXCEPT !.hist = Append(@, outcome)]
    IN  IF ~outcome.ok THEN return(got, "Failed", ReqwestError)
        ELSE IF outcome.status = 202 THEN thread_sleep(got, Duration_from_secs(1))
        ELSE IF outcome.status >= 400 THEN return(got, "Failed", ReqwestError)
        ELSE [break(got) EXCEPT !.holds = TRUE]

\* get_json_resp_b: the answer to the GET of line 52 and the rest of that
\* loop iteration.
get_json_resp_b_loop(call, outcome) ==
    LET got == [call EXCEPT !.hist = Append(@, outcome)]
    IN  IF ~outcome.ok THEN return(got, "Failed", ReqwestError)
        ELSE IF outcome.status = 202 THEN thread_sleep(got, Duration_from_secs(1))
        ELSE [break(got) EXCEPT !.holds = TRUE]

\* get_json_resp_b_text, if an unreadable body were taken as an empty one
\* (unwrap_or_default in place of `?`).
get_json_resp_b_text_or_default(call, text) ==
    LET got == [call EXCEPT !.text = Some(text)]
    IN  convert(got, text.val)

\* get_json_resp_b: resp.text()? and the conversion.
get_json_resp_b_text(call, text) ==
    LET got == [call EXCEPT !.text = Some(text)]
    IN  IF ~text.ok THEN return(got, "Failed", ReqwestError)
        ELSE convert(got, text.val)

\* get_json_resp is entered with the url the wrapper built.
get_json_resp(call, url) ==
    reqwest_get([call EXCEPT !.mode = "async", !.url = url])

\* get_json_resp_b is entered with the url the wrapper built.
get_json_resp_b(call, url) ==
    reqwest_blocking_get([call EXCEPT !.mode = "blocking", !.url = url])

\* The worker of the async runtime is free for call c: no other
\* non-blocking call occupies it.
RuntimeFree(c) ==
    \A d \in Calls \ {c} : calls[d].mode = "async" => ~calls[d].holds

(* ------------------------------ wrappers ----------------------------- *)

\* Search::as_str
Search_as_str(t) ==
    CASE t = "BoardGame" -> <<"b", "o", "a", "r", "d", "g", "a", "m", "e">>
      [] t = "BoardGameExpansion" ->
            <<"b", "o", "a", "r", "d", "g", "a", "m", "e",
              "e", "x", "p", "a", "n", "s", "i", "o", "n">>
      [] t = "BoardGameAccessory" ->
            <<"b", "o", "a", "r", "d", "g", "a", "m", "e",
              "a", "c", "c", "e", "s", "s", "o", "r", "y">>
      [] t = "VideoGame" -> <<"v", "i", "d", "e", "o", "g", "a", "m", "e">>
      [] t = "RpgItem" -> <<"r", "p", "g", "i", "t", "e", "m">>

\* The arguments the modelled callers pass.
SearchTexts == {<<"a", " ", "b">>}

SearchTypes == {<<"BoardGame">>}

CallerOptions == {None, Some([k \in {<<"x">>} |-> <<"1">>])}

\* The default parameters of Client1::search and Client1::search_b.
Client1_search_defaults(search) ==
    Some([k \in {<<"s", "e", "a", "r", "c", "h">>} |-> search])

\* The default parameters of Client2::search and Client2::search_b.
Client2_search_defaults(query, stypes) ==
    LET type == join([i \in DOMAIN stypes |-> Search_as_str(stypes[i])], <<",">>)
    IN  Some([k \in {<<"q", "u", "e", "r", "y">>, <<"t", "y", "p", "e">>} |->
                IF k = <<"q", "u", "e", "r", "y">> THEN query ELSE type])

\* Client1::search, if get_full_url kept the path in the client.
Client1_search_keeps_path(c) ==
    /\ calls[c].pc = "Idle"
    /\ RuntimeFree(c)
    /\ \E search \in SearchTexts, options \in CallerOptions :
         LET defaults == Client1_search_defaults(search)
         IN  \E order \in Orders(DOMAIN merge_opts(options, defaults)) :
               calls' = [calls EXCEPT ![c] = get_json_resp(@,
                            Client1_get_full_url(client1, <<"s", "e", "a", "r", "c", "h">>,
                                                 options, defaults, None, order))]
    /\ client1' = [client1 EXCEPT !.api_prefix = @ \o <<"/", "s", "e", "a", "r", "c", "h">>]
    /\ UNCHANGED <<client2, run>>

\* Client1::search
Client1_search(c) ==
    /\ calls[c].pc = "Idle"
    /\ RuntimeFree(c)
    /\ \E search \in SearchTexts, options \in CallerOptions :
         LET defaults == Client1_search_defaults(search)
         IN  \E order \in Orders(DOMAIN merge_opts(options, defaults)) :
               calls' = [calls EXCEPT ![c] = get_json_resp(@,
                            Client1_get_full_url(client1, <<"s", "e", "a", "r", "c", "h">>,
                                                 options, defaults, None, order))]
    /\ UNCHANGED <<client1, client2, run>>

\* Client1::search_b
Client1_search_b(c) ==
    /\ calls[c].pc = "Idle"
    /\ \E search \in SearchTexts, options \in CallerOptions :
         LET defaults == Client1_search_defaults(search)
         IN  \E order \in Orders(DOMAIN merge_opts(options, defaults)) :
               calls' = [calls EXCEPT ![c] = get_json_resp_b(@,
                            Client1_get_full_url(client1, <<"s", "e", "a", "r", "c", "h">>,
                                                 options, defaults, None, order))]
    /\ UNCHANGED <<client1, client2, run>>

\* Client2::search
Client2_search(c) ==
    /\ calls[c].pc = "Idle"
    /\ RuntimeFree(c)
    /\ \E query \in SearchTexts, stypes \in SearchTypes :
         LET defaults == Client2_search_defaults(query, stypes)
         IN  \E order \in Orders(DOMAIN merge_opts(None, defaults)) :
               calls' = [calls EXCEPT ![c] = get_json_resp(@,
                            Client2_get_full_url(client2, <<"s", "e", "a", "r", "c", "h">>,
                                                 None, defaults, order))]
    /\ UNCHANGED <<client1, client2, run>>

\* Client2::search_b
Client2_search_b(c) ==
    /\ calls[c].pc = "Idle"
    /\ \E query \in SearchTexts, stypes \in SearchTypes :
         LET defaults == Client2_search_defaults(query, stypes)
         IN  \E order \in Orders(DOMAIN merge_opts(None, defaults)) :
               calls' = [calls EXCEPT ![c] = get_json_resp_b(@,
                            Client2_get_full_url(client2, <<"s", "e", "a", "r", "c", "h">>,
                                                 None, defaults, order))]
    /\ UNCHANGED <<client1, client2, run>>

(* ------------------------- steps of the executor --------------------- *)

\* get_json_resp: the pending GET is answered.
get_json_resp_answer(c) ==
    /\ calls[c].mode = "async"
    /\ calls[c].pc = "Requesting"
    /\ RuntimeFree(c)
    /\ \E outcome \in GetOutcomes :
         calls' = [calls EXCEPT ![c] = get_json_resp_loop(@, outcome)]
    /\ UNCHANGED <<client1, client2, run>>

\* get_json_resp: the sleep is over and the loop sends the next GET.
get_json_resp_retry(c) ==
    /\ calls[c].mode = "async"
    /\ calls[c].pc = "Retrying"
    /\ calls[c].gets < MaxGets
    /\ RuntimeFree(c)
    /\ calls' = [calls EXCEPT ![c] = reqwest_get(@)]
    /\ UNCHANGED <<client1, client2, run>>

\* get_json_resp: the body arrives, or reading it fails.
get_json_resp_body(c) ==
    /\ calls[c].mode = "async"
    /\ calls[c].pc = "Completed"
    /\ RuntimeFree(c)
    /\ \E text \in TextOutcomes :
         calls' = [calls EXCEPT ![c] = get_json_resp_text(@, text)]
    /\ UNCHANGED <<client1, client2, run>>

\* get_json_resp_b: the pending GET is answered.
get_json_resp_b_answer(c) ==
    /\ calls[c].mode = "blocking"
    /\ calls[c].pc = "Requesting"
    /\ \E outcome \in GetOutcomes :
         calls' = [calls EXCEPT ![c] = get_json_resp_b_loop(@, outcome)]
    /\ UNCHANGED <<client1, client2, run>>

\* get_json_resp_b: the sleep is over and the loop sends the next GET.
get_json_resp_b_retry(c) ==
    /\ calls[c].mode = "blocking"
    /\ calls[c].pc = "Retrying"
    /\ calls[c].gets < MaxGets
    /\ calls' = [calls EXCEPT ![c] = reqwest_blocking_get(@)]
    /\ UNCHANGED <<client1, client2, run>>

\* get_json_resp_b: the body arrives, or reading it fails.
get_json_resp_b_body(c) ==
    /\ calls[c].mode = "blocking"
    /\ calls[c].pc = "Completed"
    /\ \E text \in TextOutcomes :
         calls' = [calls EXCEPT ![c] = get_json_resp_b_text(@, text)]
    /\ UNCHANGED <<client1, client2, run>>

\* Every step call c can take.
CallStep(c) ==
    \/ Client1_search(c)
    \/ Client1_search_b(c)
    \/ Client2_search(c)
    \/ Client2_search_b(c)
    \/ get_json_resp_answer(c)
    \/ get_json_resp_retry(c)
    \/ get_json_resp_body(c)
    \/ get_json_resp_b_answer(c)
    \/ get_json_resp_b_retry(c)
    \/ get_json_resp_b_body(c)

\* The strings the modelled program constructs its clients from.
ClientInputs ==
    {<<None, None>>, <<Some(<<"h", "/">>), Some(<<"/", "v", "/">>)>>}

Init ==
    /\ \E inp \in ClientInputs :
         /\ client1 = Client1_new(inp[1], inp[2])
         /\ client2 = Client2_new(inp[1], inp[2])
    /\ calls = [c \in Calls |-> NewCall]
    /\ run = NoRun

Next == \E c \in Calls : CallStep(c)

Spec == Init /\ [][Next]_vars

(* ------------------------------ claims ------------------------------- *)

Last(h) == h[Len(h)]

\* Every answer the call has received so far is a 202.
Only202(call) == \A i \in DOMAIN call.hist : call.hist[i] = Response(202)

\* The call has received n 202 answers and then an answer that is not 202.
PolledThenAnswered(call) ==
    /\ call.hist # <<>>
    /\ \A i \in 1..(Len(call.hist) - 1) : call.hist[i] = Response(202)
    /\ Last(call.hist).ok
    /\ Last(call.hist).status # 202

Returned(call) == call.pc \in {"Done", "Failed"}

\* C1: a call that was answered n times with 202 and then with another
\* status, and whose well-formed body was read, has suspended exactly n
\* times and sent exactly n+1 GETs, is Done, and has returned the
\* normalized value of that body.
C1_PollingCompletes ==
    \A c \in Calls :
        LET call == calls[c]
            n == Len(call.hist) - 1
        IN  (/\ PolledThenAnswered(call)
             /\ is_some(call.text)
             /\ unwrap(call.text).ok
             /\ unwrap(call.text).val \in WellFormed)
            => /\ Len(call.sleeps) = n
               /\ call.gets = n + 1
               /\ Len(call.reqs) = n + 1
               /\ call.pc = "Done"
               /\ call.parses = <<unwrap(call.text).val>>
               /\ call.result = Some(to_json(unwrap(call.text).val))
               /\ unwrap(call.result).tag = "Ok"

\* Some call was answered 202, 202, 200 and returned the value.
C1_Witness ==
    \E c \in Calls :
        /\ calls[c].hist = <<Response(202), Response(202), Response(200)>>
        /\ calls[c].pc = "Done"
        /\ Len(calls[c].sleeps) = 2
        /\ unwrap(calls[c].result).tag = "Ok"

\* C2: every 202 answer takes the call from Requesting to Retrying with one
\* more suspension of 1 second and nothing returned; the step out of
\* Retrying leads back to Requesting with one more GET to the url of the
\* first GET; no suspension lasts anything but 1 second, and a call whose
\* last answer is a 202 has returned nothing.
C2_RetryOn202 ==
    [][\A c \in Calls :
         LET old == calls[c]
             new == calls'[c]
         IN  /\ (/\ old.pc = "Requesting"
                 /\ new.hist = Append(old.hist, Response(202)))
                => /\ new.pc = "Retrying"
                   /\ new.sleeps = Append(old.sleeps, 1)
                   /\ new.gets = old.gets
                   /\ new.result = None
             /\ (old.pc = "Retrying" /\ new # old)
                => /\ new.pc = "Requesting"
                   /\ new.gets = old.gets + 1
                   /\ new.reqs = Append(old.reqs, old.reqs[1])
                   /\ new.url = old.url
                   /\ new.sleeps = old.sleeps
             /\ \A i \in DOMAIN new.sleeps : new.sleeps[i] = 1
             /\ (new.hist # <<>> /\ Last(new.hist) = Response(202))
                => new.result = None /\ ~Returned(new)]_vars

\* Some call was answered 202 twice and has sent its third GET.
C2_Witness ==
    \E c \in Calls :
        /\ calls[c].hist = <<Response(202), Response(202)>>
        /\ calls[c].pc = "Requesting"
        /\ calls[c].gets = 3
        /\ calls[c].sleeps = <<1, 1>>

\* The step that sends the next GET of a suspended call.
Retry(c) == get_json_resp_retry(c) \/ get_json_resp_b_retry(c)

\* C3: a call that has only ever been answered 202, however often, has
\* not completed, returned or failed, and whenever it is suspended and the
\* server still answers, its next GET can be sent.
C3_UnboundedPolling ==
    \A c \in Calls :
        Only202(calls[c])
        => /\ calls[c].pc \in {"Idle", "Requesting", "Retrying"}
           /\ calls[c].result = None
           /\ Len(calls[c].sleeps) = Len(calls[c].hist)
           /\ (calls[c].pc = "Retrying" /\ calls[c].gets < MaxGets)
              => ENABLED Retry(c)

\* Some call has been answered 202 as often as the server answers at all.
C3_Witness ==
    \E c \in Calls :
        /\ Len(calls[c].hist) = MaxGets
        /\ Only202(calls[c])
        /\ calls[c].pc = "Retrying"

\* C4: an answer with any status but 202 takes the call from Requesting to
\* Completed with no further GET, no suspension and nothing returned yet;
\* the body, once read, is handed to the parser and the call is Done; and
\* what a call returns depends on the body alone, not on the status.
C4_OtherStatusCompletes ==
    [][\A c \in Calls :
         LET old == calls[c]
             new == calls'[c]
         IN  /\ (/\ old.pc = "Requesting"
                 /\ Len(new.hist) = Len(old.hist) + 1
                 /\ Last(new.hist).ok
                 /\ Last(new.hist).status # 202)
                => /\ new.pc = "Completed"
                   /\ new.gets = old.gets
                   /\ new.sleeps = old.sleeps
                   /\ new.result = None
             /\ (old.pc = "Completed" /\ new # old)
                => /\ new.gets = old.gets
                   /\ new.sleeps = old.sleeps
                   /\ unwrap(new.text).ok
                      => /\ new.parses = <<unwrap(new.text).val>>
                         /\ new.pc = "Done"
             /\ \A d \in Calls :
                  (is_some(new.text) /\ calls'[d].text = new.text)
                  => calls'[d].result = new.result]_vars

\* One call was answered 500 and another 200, both carried the same
\* well-formed body, and both returned its value without suspending.
C4_Witness ==
    \E c, d \in Calls :
        /\ calls[c].hist = <<Response(500)>>
        /\ calls[d].hist = <<Response(200)>>
        /\ calls[c].pc = "Done" /\ calls[d].pc = "Done"
        /\ calls[c].sleeps = <<>> /\ calls[c].gets = 1
        /\ unwrap(calls[c].result).tag = "Ok"
        /\ calls[c].result = calls[d].result

\* C5: a call whose last GET failed in transport is Failed with the
\* transport error, has sent no GET and has not suspended after the
\* failure, and has not invoked the parser or read a body.
C5_TransportFailureEndsCall ==
    \A c \in Calls :
        LET call == calls[c]
        IN  (call.hist # <<>> /\ ~Last(call.hist).ok)
            => /\ call.pc = "Failed"
               /\ call.result = Some(ReqwestError)
               /\ call.gets = Len(call.hist)
               /\ Len(call.sleeps) = Len(call.hist) - 1
               /\ \A i \in 1..(Len(call.hist) - 1) : call.hist[i] = Response(202)
               /\ call.parses = <<>>
               /\ call.text = None

\* One call failed in transport on its third GET, after two 202 answers,
\* and another on its first GET.
C5_Witness ==
    \E c, d \in Calls :
        /\ calls[c].hist = <<Response(202), Response(202), TransportFailure>>
        /\ calls[c].pc = "Failed"
        /\ calls[d].hist = <<TransportFailure>>
        /\ calls[d].pc = "Failed"

\* The call returned because the body it read was not well-formed.
ConversionFailed(call) ==
    /\ is_some(call.text)
    /\ unwrap(call.text).ok
    /\ unwrap(call.text).val \notin WellFormed

\* The call returned because a GET, or reading the body, failed.
TransportFailed(call) ==
    \/ call.hist # <<>> /\ ~Last(call.hist).ok
    \/ is_some(call.text) /\ ~unwrap(call.text).ok

\* C6: a call whose body is not well-formed is Done with the conversion
\* error, a call whose connection failed has returned the transport
\* error, and the two errors are never the same value.
C6_ConversionErrorDistinct ==
    /\ \A c \in Calls :
         /\ ConversionFailed(calls[c])
            => /\ calls[c].pc = "Done"
               /\ calls[c].result = Some(ConversionError)
         /\ TransportFailed(calls[c])
            => calls[c].result = Some(ReqwestError)
    /\ \A c, d \in Calls :
         (ConversionFailed(calls[c]) /\ TransportFailed(calls[d]))
         => /\ calls[c].result # calls[d].result
            /\ unwrap(calls[c].result).kind # unwrap(calls[d].result).kind

\* One call returned a conversion error and another a transport error.
C6_Witness ==
    \E c, d \in Calls :
        /\ ConversionFailed(calls[c])
        /\ calls[c].pc = "Done"
        /\ TransportFailed(calls[d])
        /\ calls[d].pc = "Failed"

\* C7, as claimed: a call that has returned after an answer that is not 202
\* has invoked the parser exactly once, also when reading the body failed.
C7_ParsedOncePerResponse ==
    \A c \in Calls :
        (Returned(calls[c]) /\ PolledThenAnswered(calls[c]))
        => Len(calls[c].parses) = 1

\* C7, amended: the parser is invoked at most once per call, never while
\* every answer so far is a 202, exactly once (on the text read) when the
\* body of the answer that is not 202 has been read, and not at all when
\* reading that body fails.
C7_ParsedOncePerBodyRead ==
    \A c \in Calls :
        LET call == calls[c]
        IN  /\ Len(call.parses) <= 1
            /\ Only202(call) => call.parses = <<>>
            /\ (is_some(call.text) /\ unwrap(call.text).ok)
               => call.parses = <<unwrap(call.text).val>>
            /\ (is_some(call.text) /\ ~unwrap(call.text).ok)
               => call.parses = <<>> /\ call.pc = "Failed"
            /\ call.parses # <<>>
               => /\ PolledThenAnswered(call)
                  /\ Returned(call)
                  /\ call.text = Some(Text(call.parses[1]))

\* One call parsed the body it read, after a 202, and another returned
\* without parsing because reading the body failed.
C7_Witness ==
    \E c, d \in Calls :
        /\ calls[c].hist = <<Response(202), Response(200)>>
        /\ Len(calls[c].parses) = 1
        /\ PolledThenAnswered(calls[d])
        /\ calls[d].text = Some(TextFailure)
        /\ calls[d].pc = "Failed"
        /\ calls[d].parses = <<>>

IsPrefix(a, b) == Len(a) <= Len(b) /\ SubSeq(b, 1, Len(a)) = a

\* C8: a non-blocking and a blocking call that have received the same
\* answers and the same body outcome have gone through the same states,
\* one at most a step ahead of the other; at the same position, and so
\* when both have returned, they have sent as many GETs, suspended as
\* often and for as long, parsed the same text and returned the same
\* result, and with the same url they have requested the same urls.
C8_ModesAgree ==
    \A c, d \in Calls :
        LET a == calls[c]
            b == calls[d]
        IN  (/\ a.mode = "async"
             /\ b.mode = "blocking"
             /\ a.hist = b.hist
             /\ a.text = b.text)
            => /\ IsPrefix(a.trace, b.trace) \/ IsPrefix(b.trace, a.trace)
               /\ (Len(a.trace) = Len(b.trace) \/ (Returned(a) /\ Returned(b)))
                  => /\ a.trace = b.trace
                     /\ a.pc = b.pc
                     /\ a.gets = b.gets
                     /\ a.sleeps = b.sleeps
                     /\ a.parses = b.parses
                     /\ a.result = b.result
                     /\ a.url = b.url => a.reqs = b.reqs

\* A non-blocking and a blocking call with the same url were both answered
\* 202 and then 404, and both have returned; another pair both failed to
\* read the body.
C8_Witness ==
    \E c, d \in Calls :
        /\ calls[c].mode = "async"
        /\ calls[d].mode = "blocking"
        /\ calls[c].url = calls[d].url
        /\ calls[c].hist = <<Response(202), Response(404)>>
        /\ calls[d].hist = calls[c].hist
        /\ calls[c].text = calls[d].text
        /\ Returned(calls[c])
        /\ Returned(calls[d])

\* The steps of get_json_resp for call c.
AsyncStep(c) ==
    \/ get_json_resp_answer(c)
    \/ get_json_resp_retry(c)
    \/ get_json_resp_body(c)

\* Call c has something to do: an answer or a body can arrive, or its
\* sleep is over and the server still answers.
Ready(call) ==
    \/ call.pc \in {"Requesting", "Completed"}
    \/ call.pc = "Retrying" /\ call.gets < MaxGets

\* C9: a non-blocking call suspended in Retrying does not occupy the
\* runtime's worker, and every other non-blocking call that is ready can
\* take its next step, and every call not yet made can be started, while
\* it is suspended.
C9_SuspendYields ==
    \A c \in Calls :
        (calls[c].mode = "async" /\ calls[c].pc = "Retrying")
        => /\ ~calls[c].holds
           /\ \A d \in Calls \ {c} :
                /\ (calls[d].mode = "async" /\ Ready(calls[d]))
                   => ENABLED AsyncStep(d)
                /\ calls[d].pc = "Idle"
                   => ENABLED (Client1_search(d) \/ Client2_search(d))

\* A non-blocking call is suspended after as many 202 answers as the
\* server gives, and another non-blocking call has completed with a value.
C9_Witness ==
    \E c, d \in Calls :
        /\ calls[c].mode = "async"
        /\ calls[c].pc = "Retrying"
        /\ Len(calls[c].hist) = MaxGets
        /\ calls[d].mode = "async"
        /\ calls[d].pc = "Done"
        /\ unwrap(calls[d].result).tag = "Ok"

\* C10: no step of a call changes the configuration of either client, and
\* a step of one call changes nothing of any other call.
C10_NoSharedMutableState ==
    [][\A d \in Calls :
         CallStep(d)
         => /\ client1' = client1
            /\ client2' = client2
            /\ \A c \in Calls \ {d} : calls'[c] = calls[c]]_vars

\* Two calls on the same client are in flight at once, one suspended and
\* one waiting for an answer, and the client is as it was constructed.
C10_Witness ==
    \E c, d \in Calls :
        /\ c # d
        /\ calls[c].pc = "Retrying"
        /\ calls[d].pc = "Requesting"
        /\ Len(calls[d].hist) = 1
        /\ IsPrefix(client1.url_base, calls[c].url)
        /\ IsPrefix(client1.url_base \o <<"/">> \o client1.api_prefix \o <<"/">>,
                    calls[d].url)
        /\ \E inp \in ClientInputs : client1 = Client1_new(inp[1], inp[2])

(* ------------------- functions evaluated on their own ---------------- *)

\* A parameter set has at most this many pairs.
MaxPairs == 2

\* The parameter sets with keys in K, values in V and at most n pairs.
ParamSets(K, V, n) ==
    UNION {[D -> V] : D \in {D \in SUBSET K : Cardinality(D) <= n}}

\* Keys and values with the reserved characters in them, and empty ones.
QsKeys ==
    {<<"k">>, <<"k", "=">>, <<>>, <<"a", " ", "&">>, <<"/", "?">>}

QsValues ==
    {<<"v">>, <<>>, <<"=", "&">>, <<" ", "/", "?">>, <<"%", "2", "6">>}

\* params2qs is evaluated on a parameter set.
params2qs_run ==
    /\ run = NoRun
    /\ \E params \in ParamSets(QsKeys, QsValues, MaxPairs) :
         \E order \in Orders(DOMAIN params) :
           run' = [fn |-> "params2qs",
                   args |-> [params |-> params, order |-> order],
                   ret |-> params2qs(params, order)]
    /\ UNCHANGED <<client1, client2, calls>>

QsNext == params2qs_run

QsSpec == Init /\ [][QsNext]_vars

\* How often the character ch occurs in s.
count(s, ch) == Cardinality({i \in DOMAIN s : s[i] = ch})

\* The first place of ch in s, or 0.
find(s, ch) ==
    IF \E i \in DOMAIN s : s[i] = ch
    THEN CHOOSE i \in DOMAIN s : s[i] = ch /\ \A j \in 1..(i - 1) : s[j] # ch
    ELSE 0

RECURSIVE split(_, _)
\* The parts of s between the occurrences of ch (one part when there is none).
split(s, ch) ==
    LET i == find(s, ch)
    IN  IF i = 0 THEN <<s>>
        ELSE <<SubSeq(s, 1, i - 1)>> \o split(SubSeq(s, i + 1, Len(s)), ch)

RECURSIVE decode(_)
\* Percent-decoding: "%XY" is the character it escapes, any other
\* character is itself.
decode(s) ==
    IF s = <<>> THEN <<>>
    ELSE IF /\ Head(s) = "%"
            /\ Len(s) >= 3
            /\ \E ch \in DOMAIN Escaped : Escaped[ch] = SubSeq(s, 1, 3)
    THEN <<CHOOSE ch \in DOMAIN Escaped : Escaped[ch] = SubSeq(s, 1, 3)>>
         \o decode(SubSeq(s, 4, Len(s)))
    ELSE <<Head(s)>> \o decode(Tail(s))

\* The key and the value of one part: what is before and after its first
\* "=", percent-decoded.
decode_part(part) ==
    LET i == find(part, "=")
    IN  IF i = 0 THEN <<decode(part), <<>>>>
        ELSE <<decode(SubSeq(part, 1, i - 1)),
               decode(SubSeq(part, i + 1, Len(part)))>>

\* The parts of a query string: none for the empty string.
qs_parts(qs) == IF qs = <<>> THEN <<>> ELSE split(qs, "&")

\* The key/value pairs a query string decodes to.
decode_qs(qs) == {decode_part(qs_parts(qs)[i]) : i \in DOMAIN qs_parts(qs)}

\* The key/value pairs of a parameter set.
Pairs(params) == {<<k, params[k]>> : k \in DOMAIN params}

\* C13: the string params2qs returns for n pairs has, for every pair, exactly
\* one part encoded-key=encoded-value and no other part; the parts are
\* separated by exactly n-1 "&", none leading and none trailing; and for
\* no pairs it is the empty string.
C13_QueryStringShape ==
    run.fn = "params2qs"
    => LET params == run.args.params
           qs == run.ret
           n == Cardinality(DOMAIN params)
           parts == qs_parts(qs)
       IN  /\ n = 0 => qs = <<>>
           /\ n > 0
              => /\ count(qs, "&") = n - 1
                 /\ qs[1] # "&"
                 /\ qs[Len(qs)] # "&"
           /\ Len(parts) = n
           /\ \A k \in DOMAIN params :
                Cardinality({i \in DOMAIN parts :
                    parts[i] = encode(k) \o <<"=">> \o encode(params[k])}) = 1

\* params2qs was evaluated on two pairs, one with the key "k=", and on
\* the empty set.
C13_Witness ==
    /\ run.fn = "params2qs"
    /\ Cardinality(DOMAIN run.args.params) = 2
    /\ <<"k", "=">> \in DOMAIN run.args.params
    /\ count(run.ret, "&") = 1

\* C14: splitting the string params2qs returns on "&", each part on its
\* first "=", and percent-decoding both sides gives back exactly the pairs
\* of the parameter set, one part per pair.
C14_QueryStringRoundTrip ==
    run.fn = "params2qs"
    => /\ decode_qs(run.ret) = Pairs(run.args.params)
       /\ Len(qs_parts(run.ret)) = Cardinality(DOMAIN run.args.params)

\* params2qs was evaluated on the key "k=" with a value holding "=" and
\* "&", and on an empty key, and the key "k=" went out as "k%3D".
C14_Witness ==
    /\ run.fn = "params2qs"
    /\ DOMAIN run.args.params = {<<"k", "=">>, <<>>}
    /\ run.args.params[<<"k", "=">>] = <<"=", "&">>
    /\ run.args.order[1] = <<"k", "=">>
    /\ SubSeq(run.ret, 1, 5) = <<"k", "%", "3", "D", "=">>

\* The text "xmlapi".
XMLAPI == <<"x", "m", "l", "a", "p", "i">>

\* The operation names "search" and "boardgame".
SEARCH == <<"s", "e", "a", "r", "c", "h">>

BOARDGAME == <<"b", "o", "a", "r", "d", "g", "a", "m", "e">>

(* --------------------- the URLs, built on their own ------------------ *)

\* The operation names handed to the URL builders: two of the library,
\* and one with reserved characters in it.
UrlPaths == {SEARCH, BOARDGAME, <<"?", " ">>}

\* The add-ons handed to Client1's URL builders: none, an empty list, the
\* lists of the tests, and one with a "," and a space in its items.
UrlAddOns ==
    {None, Some(<<>>), Some(<<<<"1">>, <<"2">>>>),
     Some(<<<<"a">>, <<"b">>, <<"c">>>>), Some(<<<<"x", " ">>, <<",">>>>)}

UrlKeys == {<<"q">>, <<"x">>}

\* The caller's parameters: none, or a parameter set.
UrlParams ==
    {None} \cup {Some(p) : p \in ParamSets(UrlKeys, {<<"a", " ", "b">>, <<"1">>}, MaxPairs)}

\* The default parameters of an operation: none, or a parameter set.
UrlDefaults ==
    {None} \cup {Some(p) : p \in ParamSets(UrlKeys, {<<"a", " ", "b">>, <<"0">>}, MaxPairs)}

\* The arguments of one evaluation; a function that lacks one of them
\* has None there.
Args(path, params, default_params, uri_addons, order) ==
    [path |-> path, params |-> params, default_params |-> default_params,
     uri_addons |-> uri_addons, order |-> order]

\* get_opts is evaluated.
get_opts_run ==
    /\ run = NoRun
    /\ \E options \in UrlParams :
         run' = [fn |-> "get_opts",
                 args |-> Args(None, options, None, None, None),
                 ret |-> get_opts(options)]
    /\ UNCHANGED <<client1, client2, calls>>

\* Client1::gen_url is evaluated.
Client1_gen_url_run ==
    /\ run = NoRun
    /\ \E path \in UrlPaths, options \in UrlParams, uri_addons \in UrlAddOns :
         \E order \in Orders(DOMAIN get_opts(options)) :
           run' = [fn |-> "Client1_gen_url",
                   args |-> Args(path, options, None, uri_addons, order),
                   ret |-> Client1_gen_url(client1, path, options, uri_addons, order)]
    /\ UNCHANGED <<client1, client2, calls>>

\* Client2::gen_url is evaluated.
Client2_gen_url_run ==
    /\ run = NoRun
    /\ \E path \in UrlPaths, options \in UrlParams :
         \E order \in Orders(DOMAIN get_opts(options)) :
           run' = [fn |-> "Client2_gen_url",
                   args |-> Args(path, options, None, None, order),
                   ret |-> Client2_gen_url(client2, path, options, order)]
    /\ UNCHANGED <<client1, client2, calls>>

\* Client1::get_full_url is evaluated.
Client1_get_full_url_run ==
    /\ run = NoRun
    /\ \E path \in UrlPaths, params \in UrlParams,
          default_params \in UrlDefaults, uri_addons \in UrlAddOns :
         \E order \in Orders(DOMAIN merge_opts(params, default_params)) :
           run' = [fn |-> "Client1_get_full_url",
                   args |-> Args(path, params, default_params, uri_addons, order),
                   ret |-> Client1_get_full_url(client1, path, params,
                                                default_params, uri_addons, order)]
    /\ UNCHANGED <<client1, client2, calls>>

\* Client2::get_full_url is evaluated.
Client2_get_full_url_run ==
    /\ run = NoRun
    /\ \E path \in UrlPaths, params \in UrlParams, default_params \in UrlDefaults :
         \E order \in Orders(DOMAIN merge_opts(params, default_params)) :
           run' = [fn |-> "Client2_get_full_url",
                   args |-> Args(path, params, default_params, None, order),
                   ret |-> Client2_get_full_url(client2, path, params,
                                                default_params, order)]
    /\ UNCHANGED <<client1, client2, calls>>

UrlNext ==
    \/ get_opts_run
    \/ Client1_gen_url_run
    \/ Client2_gen_url_run
    \/ Client1_get_full_url_run
    \/ Client2_get_full_url_run

UrlSpec == Init /\ [][UrlNext]_vars

\* The last place of ch in s, or 0.
rfind(s, ch) ==
    IF \E i \in DOMAIN s : s[i] = ch
    THEN CHOOSE i \in DOMAIN s : s[i] = ch /\ \A j \in (i + 1)..Len(s) : s[j] # ch
    ELSE 0

\* The query of a URL: what follows its last "?" (an encoded query has
\* no "?" in it).
query(url) == SubSeq(url, rfind(url, "?") + 1, Len(url))

\* The keys of a parameter set that may be absent.
Keys(options) == IF options = None THEN {} ELSE DOMAIN options[1]

\* An evaluation of get_full_url, of either client.
FullUrlRun == run.fn \in {"Client1_get_full_url", "Client2_get_full_url"}

\* An evaluation of gen_url, of either client.
GenUrlRun == run.fn \in {"Client1_gen_url", "Client2_gen_url"}

\* The client an evaluation was made on.
Self == IF run.fn \in {"Client1_gen_url", "Client1_get_full_url"} THEN client1 ELSE client2

\* C11: for every key that is both in the caller's parameters and in the
\* default parameters, the query of the URL get_full_url builds has a pair
\* with that key and the default value, and no pair with that key and
\* another value.
C11_DefaultWinsOnTheWire ==
    FullUrlRun
    => \A k \in Keys(run.args.params) \cap Keys(run.args.default_params) :
         /\ <<k, run.args.default_params[1][k]>> \in decode_qs(query(run.ret))
         /\ \A kv \in decode_qs(query(run.ret)) :
              kv[1] = k => kv[2] = run.args.default_params[1][k]

\* get_full_url was evaluated with the key "q" in both sets, with
\* different values, and the caller's "x" not among the defaults.
C11_Witness ==
    /\ FullUrlRun
    /\ Keys(run.args.params) = {<<"q">>, <<"x">>}
    /\ Keys(run.args.default_params) = {<<"q">>}
    /\ run.args.params[1][<<"q">>] = <<"1">>
    /\ run.args.default_params[1][<<"q">>] = <<"a", " ", "b">>
    /\ <<<<"q">>, <<"a", " ", "b">>>> \in decode_qs(query(run.ret))

\* C12: the query of the URL get_full_url builds has exactly one pair for
\* every key of the caller's parameters or of the default parameters and
\* no other pair, an absent set counting as empty; a caller key that is
\* not a default key has the caller's value; and get_opts(None) is the
\* empty set, get_opts(Some(p)) is p.
C12_MergedKeys ==
    /\ FullUrlRun
       => LET wire == decode_qs(query(run.ret))
              keys == Keys(run.args.params) \cup Keys(run.args.default_params)
          IN  /\ {kv[1] : kv \in wire} = keys
              /\ Len(qs_parts(query(run.ret))) = Cardinality(keys)
              /\ \A k \in Keys(run.args.params) \ Keys(run.args.default_params) :
                   <<k, run.args.params[1][k]>> \in wire
    /\ run.fn = "get_opts"
       => IF run.args.params = None
          THEN DOMAIN run.ret = {}
          ELSE run.ret = run.args.params[1]

\* get_full_url was evaluated with a caller key that is not a default
\* key and no default set at all, and the key is on the wire.
C12_Witness ==
    /\ FullUrlRun
    /\ Keys(run.args.params) = {<<"x">>}
    /\ run.args.default_params = None
    /\ decode_qs(query(run.ret)) = {<<<<"x">>, <<"1">>>>}

\* url_base + "/" + api_prefix + "/" + operation name of an evaluation.
Stem == Self.url_base \o <<"/">> \o Self.api_prefix \o <<"/">> \o run.args.path

\* The strings the query encoder can return for a parameter set that may
\* be absent: nothing for an absent one.
Encoded(options) ==
    IF options = None THEN {<<>>}
    ELSE {params2qs(options[1], o) : o \in Orders(DOMAIN options[1])}

\* C15: the URL gen_url builds is url_base, "/", api_prefix, "/", the
\* operation name as given, then, when add-ons are supplied, "/" and the
\* add-ons as given, in their order, with "," between them, then "?",
\* then what the query encoder returns for the parameters, and nothing
\* else.
C15_UrlLayout ==
    GenUrlRun
    => \E q \in Encoded(run.args.params) :
         run.ret = Stem
                   \o (IF run.args.uri_addons = None THEN <<>>
                       ELSE <<"/">> \o join(run.args.uri_addons[1], <<",">>))
                   \o <<"?">> \o q

\* Client1::gen_url was evaluated on a client with overridden values, an
\* operation name and add-ons with reserved characters, and two
\* parameters.
C15_Witness ==
    /\ run.fn = "Client1_gen_url"
    /\ client1.url_base = <<"h">>
    /\ run.args.path = <<"?", " ">>
    /\ run.args.uri_addons = Some(<<<<"x", " ">>, <<",">>>>)
    /\ Keys(run.args.params) = UrlKeys
    /\ IsPrefix(<<"h", "/", "v", "/", "?", " ", "/", "x", " ", ",", ",", "?">>,
                run.ret)

\* C16: every URL the builders return has a "?" after the path part:
\* directly after the operation name when no add-ons are handed over,
\* directly after the add-ons when there are some; when no parameters are
\* supplied, or none at all are in the set, the URL ends with that "?";
\* and "boardgame" with the add-ons 1 and 2 and no parameters on a client
\* without overrides is https://boardgamegeek.com/xmlapi/boardgame/1,2?
C16_QuestionMarkAlways ==
    (GenUrlRun \/ FullUrlRun)
    => LET i == rfind(run.ret, "?")
           addons == run.args.uri_addons
           keys == Keys(run.args.params) \cup Keys(run.args.default_params)
       IN  /\ IsPrefix(Stem, run.ret)
           /\ i > Len(Stem)
           /\ addons = None => i = Len(Stem) + 1
           /\ (addons # None /\ addons[1] # <<>>)
              => i = Len(Stem) + 1 + Len(join(addons[1], <<",">>)) + 1
           /\ keys = {} => i = Len(run.ret)
           /\ ( /\ run.fn = "Client1_gen_url"
                /\ client1 = Client1_new(None, None)
                /\ run.args.path = BOARDGAME
                /\ addons = Some(<<<<"1">>, <<"2">>>>)
                /\ keys = {} )
              => run.ret = DefaultUrlBase \o <<"/">> \o XMLAPI \o <<"/">>
                           \o BOARDGAME \o <<"/", "1", ",", "2", "?">>

\* Client2::gen_url was evaluated on "boardgame" without parameters and
\* returned a URL that ends with the bare "?".
C16_Witness ==
    /\ run.fn = "Client2_gen_url"
    /\ client2 = Client2_new(None, None)
    /\ run.args.path = BOARDGAME
    /\ run.args.params = None
    /\ run.ret = DefaultUrlBase \o <<"/">> \o XMLAPI \o <<"2", "/">>
                 \o BOARDGAME \o <<"?">>

(* ------------------------- Client1::boardgame ------------------------ *)

\* The lists of game ids handed to Client1::boardgame.
GameIds == {<<>>, <<1>>, <<1, 2>>}

\* The URL Client1::boardgame hands to get_json_resp: the ids, converted
\* to text, are the add-ons, and there are no default parameters.
Client1_boardgame_url(self, game_ids, options, order) ==
    LET ids == [i \in DOMAIN game_ids |-> to_string(game_ids[i])]
    IN  Client1_get_full_url(self, BOARDGAME, options, None, Some(ids), order)

\* Client1::boardgame
Client1_boardgame(c) ==
    /\ calls[c].pc = "Idle"
    /\ RuntimeFree(c)
    /\ \E game_ids \in GameIds, options \in CallerOptions :
         \E order \in Orders(DOMAIN merge_opts(options, None)) :
           calls' = [calls EXCEPT ![c] = get_json_resp(@,
                        Client1_boardgame_url(client1, game_ids, options, order))]
    /\ UNCHANGED <<client1, client2, run>>

BoardgameStep(c) ==
    \/ Client1_boardgame(c)
    \/ get_json_resp_answer(c)
    \/ get_json_resp_retry(c)
    \/ get_json_resp_body(c)

BoardgameNext == \E c \in Calls : BoardgameStep(c)

BoardgameSpec == Init /\ [][BoardgameNext]_vars

\* What follows the operation name when the add-ons are appended only
\* if there are some: "/" and the add-ons with "," between them, or
\* nothing.
AddOnsIfAny(addons) ==
    IF addons = <<>> THEN <<>> ELSE <<"/">> \o join(addons, <<",">>)

\* C17: the URL of a call of Client1::boardgame is, for one of the id
\* lists and one of the parameter sets it can be given, the operation
\* name, then "/" and the ids only if the list is not empty, then "?" and
\* the query: after an empty list the operation name is followed
\* directly by "?".
C17_AddOnsOnlyIfNonEmpty ==
    \A c \in Calls :
        calls[c].pc # "Idle"
        => \E game_ids \in GameIds, options \in CallerOptions :
             \E q \in Encoded(options) :
               calls[c].url =
                   client1.url_base \o <<"/">> \o client1.api_prefix \o <<"/">>
                   \o BOARDGAME
                   \o AddOnsIfAny([i \in DOMAIN game_ids |-> to_string(game_ids[i])])
                   \o <<"?">> \o q

(* ----------------------------- constructors -------------------------- *)

\* A string handed to a constructor has at most this many characters.
MaxInputLen == 3

\* The strings over the characters of S with at most n characters.
Strings(S, n) == UNION {[1..m -> S] : m \in 0..n}

\* What a constructor is handed for url_base or api_prefix: nothing, or a
\* string with any number of slashes at its ends and inside.
NewInputs == {None} \cup {Some(t) : t \in Strings({"h", "/"}, MaxInputLen)}

\* Client1::new_from_defaults, which the crate documentation and the
\* integration tests call: the client without overrides.
Client1_new_from_defaults == Client1_new(None, None)

\* Client2::new_from_defaults
Client2_new_from_defaults == Client2_new(None, None)

\* Client1::new is evaluated and the client constructed.
Client1_new_run ==
    /\ run = NoRun
    /\ \E url_base \in NewInputs, api_prefix \in NewInputs :
         /\ client1' = Client1_new(url_base, api_prefix)
         /\ run' = [fn |-> "Client1_new",
                    args |-> [url_base |-> url_base, api_prefix |-> api_prefix],
                    ret |-> Client1_new(url_base, api_prefix)]
    /\ UNCHANGED <<client2, calls>>

\* Client2::new is evaluated and the client constructed.
Client2_new_run ==
    /\ run = NoRun
    /\ \E url_base \in NewInputs, api_prefix \in NewInputs :
         /\ client2' = Client2_new(url_base, api_prefix)
         /\ run' = [fn |-> "Client2_new",
                    args |-> [url_base |-> url_base, api_prefix |-> api_prefix],
                    ret |-> Client2_new(url_base, api_prefix)]
    /\ UNCHANGED <<client1, calls>>

\* Client1::new_from_defaults is evaluated and the client constructed.
Client1_new_from_defaults_run ==
    /\ run = NoRun
    /\ client1' = Client1_new_from_defaults
    /\ run' = [fn |-> "Client1_new_from_defaults",
               args |-> [url_base |-> None, api_prefix |-> None],
               ret |-> Client1_new_from_defaults]
    /\ UNCHANGED <<client2, calls>>

\* Client2::new_from_defaults is evaluated and the client constructed.
Client2_new_from_defaults_run ==
    /\ run = NoRun
    /\ client2' = Client2_new_from_defaults
    /\ run' = [fn |-> "Client2_new_from_defaults",
               args |-> [url_base |-> None, api_prefix |-> None],
               ret |-> Client2_new_from_defaults]
    /\ UNCHANGED <<client1, calls>>

NewNext ==
    \/ Client1_new_run
    \/ Client2_new_run
    \/ Client1_new_from_defaults_run
    \/ Client2_new_from_defaults_run

NewSpec == Init /\ [][NewNext]_vars

\* An evaluation of new, of either client.
NewRun == run.fn \in {"Client1_new", "Client2_new"}

EndsWithSlash(s) == Len(s) > 0 /\ s[Len(s)] = "/"

StartsWithSlash(s) == Len(s) > 0 /\ s[1] = "/"

\* C18: the client new constructs has a url_base without a trailing "/"
\* and an api_prefix without a leading and without a trailing "/",
\* whatever strings it was handed; and a url_base handed over without a
\* trailing "/" is stored as it is.
C18_NoOuterSlashes ==
    NewRun
    => /\ ~EndsWithSlash(run.ret.url_base)
       /\ ~StartsWithSlash(run.ret.api_prefix)
       /\ ~EndsWithSlash(run.ret.api_prefix)
       /\ (run.args.url_base # None /\ ~EndsWithSlash(run.args.url_base[1]))
          => run.ret.url_base = run.args.url_base[1]

\* The api_prefix new uses when it is handed none.
DefaultPrefix == IF run.fn = "Client1_new" THEN XMLAPI ELSE XMLAPI \o <<"2">>

\* C19: a client constructed by new without a url_base has the url_base
\* https://boardgamegeek.com, whatever api_prefix it was handed, and one
\* constructed without an api_prefix has the api_prefix xmlapi (Client1)
\* or xmlapi2 (Client2), whatever url_base it was handed; a value that is
\* handed over replaces the default; and new_from_defaults constructs the
\* client with both defaults.
C19_Defaults ==
    /\ NewRun
       => /\ run.args.url_base = None => run.ret.url_base = DefaultUrlBase
          /\ run.args.api_prefix = None => run.ret.api_prefix = DefaultPrefix
          /\ (run.args.url_base # None /\ ~EndsWithSlash(run.args.url_base[1]))
             => run.ret.url_base = run.args.url_base[1]
          /\ ( /\ run.args.api_prefix # None
               /\ ~StartsWithSlash(run.args.api_prefix[1])
               /\ ~EndsWithSlash(run.args.api_prefix[1]) )
             => run.ret.api_prefix = run.args.api_prefix[1]
          /\ run.fn = "Client1_new" => client1 = run.ret
          /\ run.fn = "Client2_new" => client2 = run.ret
    /\ run.fn = "Client1_new_from_defaults"
       => client1 = [url_base |-> DefaultUrlBase, api_prefix |-> XMLAPI]
    /\ run.fn = "Client2_new_from_defaults"
       => client2 = [url_base |-> DefaultUrlBase, api_prefix |-> XMLAPI \o <<"2">>]

\* Client2::new was handed a url_base and no api_prefix, and the client
\* has that url_base and the prefix xmlapi2.
C19_Witness ==
    /\ run.fn = "Client2_new"
    /\ run.args.url_base = Some(<<"h">>)
    /\ run.args.api_prefix = None
    /\ client2 = [url_base |-> <<"h">>, api_prefix |-> XMLAPI \o <<"2">>]

(* ------------------------------ termination -------------------------- *)

\* A step of the executor for call c: one that the call makes without
\* its caller, once it has been started.
Proceed(c) ==
    \/ get_json_resp_answer(c)
    \/ get_json_resp_retry(c)
    \/ get_json_resp_body(c)
    \/ get_json_resp_b_answer(c)
    \/ get_json_resp_b_retry(c)
    \/ get_json_resp_b_body(c)

\* The calls of one non-blocking and one blocking operation, and their
\* steps.
TermStep(c) ==
    \/ Client1_search(c)
    \/ Client2_search_b(c)
    \/ Proceed(c)

TermNext == \E c \in Calls : TermStep(c)

\* Fair scheduling: a blocking call runs on its caller's thread and a
\* non-blocking one on the runtime, and neither is left waiting for ever
\* with a step it can make; a GET that is out is answered or fails.
FairSpec == Init /\ [][TermNext]_vars /\ \A c \in Calls : WF_vars(Proceed(c))

\* The last GET of the call was answered with a status other than 202,
\* or failed.
Settled(call) ==
    /\ call.hist # <<>>
    /\ ~Last(call.hist).ok \/ Last(call.hist).status # 202

\* C21: a call one of whose GETs is answered with a status other than
\* 202, or fails, eventually is Done or Failed; and a call that is Done
\* or Failed stays so and sends no further GET.
C21_Terminates ==
    /\ \A c \in Calls : <>Settled(calls[c]) => <>Returned(calls[c])
    /\ [][\A c \in Calls :
            Returned(calls[c])
            => /\ Returned(calls'[c])
               /\ calls'[c].gets = calls[c].gets
               /\ calls'[c].reqs = calls[c].reqs]_vars

\* A blocking call was answered 202 and then 404, read the body and is
\* Done after two GETs.
C21_Witness ==
    \E c \in Calls :
        /\ calls[c].mode = "blocking"
        /\ Len(calls[c].hist) = 2
        /\ calls[c].hist[1] = Response(202)
        /\ calls[c].hist[2] = Response(404)
        /\ calls[c].pc = "Done"
        /\ calls[c].gets = 2

(* --------------------------- Client2::plays -------------------------- *)

\* Texts of the requests.
PLAYS == <<"p", "l", "a", "y", "s">>

USERNAME == <<"u", "s", "e", "r", "n", "a", "m", "e">>

ID == <<"i", "d">>

TYPE == <<"t", "y", "p", "e">>

THING == <<"t", "h", "i", "n", "g">>

FAMILY == <<"f", "a", "m", "i", "l", "y">>


\* ThingFamily::as_str
ThingFamily_as_str(t) ==
    CASE t = "Thing" -> THING
      [] t = "Family" -> FAMILY

\* What plays can be handed as username, item_id and ttype.
Usernames == {None, Some(<<"u">>)}

ItemIds == {None, Some(7)}

TTypes == {None, Some("Family")}

\* The caller's options of a call of plays.
PlaysOptions == {None}

\* An error made with anyhow!(msg).
Anyhow(msg) == [tag |-> "Err", kind |-> "anyhow!", val |-> msg]

NeitherSupplied == "You must supply either a username or item_id + ttype"

BothSupplied == "You must supply either a username or item_id + ttype, not both"

LogicBug == "We have a logic bug here as this should never happen"

\* What the argument checks of plays end with: an error returned, the
\* default parameters of the request, or a panic.
Rejected(msg) == [tag |-> "Err", err |-> Anyhow(msg), params |-> None]

Accepted(params) == [tag |-> "Ok", err |-> Anyhow(""), params |-> Some(params)]

Panic == [tag |-> "Panic", err |-> Anyhow(""), params |-> None]

\* The default parameters for a username.
plays_username_params(u) == [k \in {USERNAME} |-> u]

\* The default parameters for an item: ttype.unwrap() panics on None.
plays_item_params(id, ttype) ==
    IF is_some(ttype)
    THEN Accepted([k \in {ID, TYPE} |->
                     IF k = ID THEN to_string(id)
                     ELSE ThingFamily_as_str(unwrap(ttype))])
    ELSE Panic

\* The checks of plays, if the first one asked for item_id and ttype to
\* be both missing.
plays_params_both_missing(username, item_id, ttype) ==
    IF ~is_some(username) /\ (~is_some(item_id) /\ ~is_some(ttype))
    THEN Rejected(NeitherSupplied)
    ELSE IF is_some(username) /\ is_some(item_id)
    THEN Rejected(BothSupplied)
    ELSE IF is_some(username)
    THEN Accepted(plays_username_params(unwrap(username)))
    ELSE IF is_some(item_id)
    THEN plays_item_params(unwrap(item_id), ttype)
    ELSE Rejected(LogicBug)

\* The checks of plays, without the second one.
plays_params_no_both_check(username, item_id, ttype) ==
    IF ~is_some(username) /\ (~is_some(item_id) \/ ~is_some(ttype))
    THEN Rejected(NeitherSupplied)
    ELSE IF is_some(username)
    THEN Accepted(plays_username_params(unwrap(username)))
    ELSE IF is_some(item_id)
    THEN plays_item_params(unwrap(item_id), ttype)
    ELSE Rejected(LogicBug)

\* Client2::plays and plays_b up to the call of get_full_url: the two
\* checks and the three branches that build the default parameters.
plays_params(username, item_id, ttype) ==
    IF ~is_some(username) /\ (~is_some(item_id) \/ ~is_some(ttype))
    THEN Rejected(NeitherSupplied)
    ELSE IF is_some(username) /\ is_some(item_id)
    THEN Rejected(BothSupplied)
    ELSE IF is_some(username)
    THEN Accepted(plays_username_params(unwrap(username)))
    ELSE IF is_some(item_id)
    THEN plays_item_params(unwrap(item_id), ttype)
    ELSE Rejected(LogicBug)

\* The thread of the call unwinds.
panic(call) ==
    [call EXCEPT !.pc = "Panicked", !.holds = FALSE,
                 !.trace = Append(@, "Panicked")]

\* The call c of plays (mode "async") or plays_b (mode "blocking") with
\* the given arguments.
plays_call(c, mode, username, item_id, ttype, options) ==
    LET checked == plays_params(username, item_id, ttype)
        entered == [calls[c] EXCEPT
                      !.mode = mode,
                      !.args = [username |-> username, item_id |-> item_id,
                                ttype |-> ttype, options |-> options]]
    IN  IF checked.tag = "Err"
        THEN calls' = [calls EXCEPT ![c] = return(entered, "Failed", checked.err)]
        ELSE IF checked.tag = "Panic"
        THEN calls' = [calls EXCEPT ![c] = panic(entered)]
        ELSE \E order \in Orders(DOMAIN merge_opts(options, checked.params)) :
               LET url == Client2_get_full_url(client2, PLAYS, options,
                                               checked.params, order)
               IN  calls' = [calls EXCEPT ![c] =
                               IF mode = "async" THEN get_json_resp(entered, url)
                               ELSE get_json_resp_b(entered, url)]

\* Client2::plays
Client2_plays(c) ==
    /\ calls[c].pc = "Idle"
    /\ RuntimeFree(c)
    /\ \E username \in Usernames, item_id \in ItemIds, ttype \in TTypes,
          options \in PlaysOptions :
         plays_call(c, "async", username, item_id, ttype, options)
    /\ UNCHANGED <<client1, client2, run>>

\* Client2::plays_b
Client2_plays_b(c) ==
    /\ calls[c].pc = "Idle"
    /\ \E username \in Usernames, item_id \in ItemIds, ttype \in TTypes,
          options \in PlaysOptions :
         plays_call(c, "blocking", username, item_id, ttype, options)
    /\ UNCHANGED <<client1, client2, run>>

PlaysStep(c) ==
    \/ Client2_plays(c)
    \/ Client2_plays_b(c)
    \/ Proceed(c)

PlaysNext == \E c \in Calls : PlaysStep(c)

PlaysSpec == Init /\ [][PlaysNext]_vars

\* The arguments are a username without an item_id, or an item_id and a
\* ttype without a username.
UserOrItem(args) ==
    \/ args.username # None /\ args.item_id = None
    \/ args.username = None /\ args.item_id # None /\ args.ttype # None

\* C22: a call of plays or plays_b has sent a GET if and only if it was
\* given a username and no item_id, or no username and both an item_id
\* and a ttype; with any other arguments it has returned an error and
\* has sent no GET.
C22_PlaysArguments ==
    \A c \in Calls :
        calls[c].pc # "Idle"
        => /\ UserOrItem(calls[c].args) <=> calls[c].gets > 0
           /\ ~UserOrItem(calls[c].args)
              => /\ calls[c].pc = "Failed"
                 /\ is_some(calls[c].result)
                 /\ unwrap(calls[c].result).tag = "Err"
                 /\ calls[c].gets = 0
                 /\ calls[c].reqs = <<>>

\* plays_b was given a username together with an item_id and a ttype
\* and has returned the error without a GET, while a call of plays with
\* a username only has sent one.
C22_Witness ==
    \E c, d \in Calls :
        /\ calls[c].mode = "blocking"
        /\ calls[c].args.username = Some(<<"u">>)
        /\ calls[c].args.item_id = Some(7)
        /\ calls[c].pc = "Failed"
        /\ unwrap(calls[c].result) = Anyhow(BothSupplied)
        /\ calls[c].gets = 0
        /\ calls[d].mode = "async"
        /\ calls[d].args.username = Some(<<"u">>)
        /\ calls[d].args.item_id = None
        /\ calls[d].gets = 1

\* C23: no call of plays or plays_b panics, on ttype.unwrap() or
\* otherwise, and none returns the error of the final else branch,
\* whatever username, item_id and ttype are present or absent.
C23_NoLogicBugNoPanic ==
    \A c \in Calls :
        /\ calls[c].pc # "Panicked"
        /\ is_some(calls[c].result)
           => unwrap(calls[c].result) # Anyhow(LogicBug)

\* Calls of plays and plays_b went through the checks: one with an
\* item_id and no ttype was rejected by the first check, and one with an
\* item_id and a ttype requested the plays of that item.
C23_Witness ==
    \E c, d \in Calls :
        /\ calls[c].args # <<>>
        /\ calls[c].args.username = None
        /\ calls[c].args.item_id = Some(7)
        /\ calls[c].args.ttype = None
        /\ calls[c].pc = "Failed"
        /\ unwrap(calls[c].result) = Anyhow(NeitherSupplied)
        /\ calls[d].args # <<>>
        /\ calls[d].args.username = None
        /\ calls[d].args.ttype = Some("Family")
        /\ decode_qs(query(calls[d].url)) \cap {<<ID, <<"7">>>>, <<TYPE, FAMILY>>}
           = {<<ID, <<"7">>>>, <<TYPE, FAMILY>>}

(* ------------------------- every operation --------------------------- *)

\* Thing::as_str
Thing_as_str(t) ==
    CASE t = "BoardGame" -> <<"b", "o", "a", "r", "d", "g", "a", "m", "e">>
      [] t = "BoardGameExpansion" -> <<"b", "o", "a", "r", "d", "g", "a", "m", "e", "e", "x", "p", "a", "n", "s", "i", "o", "n">>
      [] t = "BoardGameAccessory" -> <<"b", "o", "a", "r", "d", "g", "a", "m", "e", "a", "c", "c", "e", "s", "s", "o", "r", "y">>
      [] t = "VideoGame" -> <<"v", "i", "d", "e", "o", "g", "a", "m", "e">>
      [] t = "RpgItem" -> <<"r", "p", "g", "i", "t", "e", "m">>
      [] t = "RpgIssue" -> <<"r", "p", "g", "i", "s", "s", "u", "e">>

\* Family::as_str
Family_as_str(t) ==
    CASE t = "Rpg" -> <<"r", "p", "g">>
      [] t = "RpgPeriodical" -> <<"r", "p", "g", "p", "e", "r", "i", "o", "d", "i", "c", "a", "l">>
      [] t = "BoardGameFamily" -> <<"b", "o", "a", "r", "d", "g", "a", "m", "e", "f", "a", "m", "i", "l", "y">>

\* Hotness::as_str
Hotness_as_str(t) ==
    CASE t = "BoardGame" -> <<"b", "o", "a", "r", "d", "g", "a", "m", "e">>
      [] t = "Rpg" -> <<"r", "p", "g">>
      [] t = "VideoGame" -> <<"v", "i", "d", "e", "o", "g", "a", "m", "e">>
      [] t = "BoardGamePerson" -> <<"b", "o", "a", "r", "d", "g", "a", "m", "e", "p", "e", "r", "s", "o", "n">>
      [] t = "RpgPerson" -> <<"r", "p", "g", "p", "e", "r", "s", "o", "n">>
      [] t = "BoardGameCompany" -> <<"b", "o", "a", "r", "d", "g", "a", "m", "e", "c", "o", "m", "p", "a", "n", "y">>
      [] t = "RpgCompany" -> <<"r", "p", "g", "c", "o", "m", "p", "a", "n", "y">>
      [] t = "VideoGameCompany" -> <<"v", "i", "d", "e", "o", "g", "a", "m", "e", "c", "o", "m", "p", "a", "n", "y">>

\* ids.iter().map(|i| i.to_string()).collect()
to_strings(ids) == [i \in DOMAIN ids |-> to_string(ids[i])]

\* What an operation hands to get_full_url: the operation name, the
\* caller's options, its default parameters and its path add-ons.
Op(path, options, defaults, addons) ==
    [tag |-> "Ok", path |-> path, options |-> options, defaults |-> defaults,
     addons |-> addons]

\* An operation that ends before get_full_url, with an error or a panic.
NoOp(tag) ==
    [tag |-> tag, path |-> <<>>, options |-> None, defaults |-> None,
     addons |-> None]

\* The non-blocking operations of Client1, each with the arguments a.
Client1_op(a) ==
    CASE a.op = "search" ->
           Op(<<"s", "e", "a", "r", "c", "h">>, a.options,
              Some([k \in {<<"s", "e", "a", "r", "c", "h">>} |-> a.text]), None)
      [] a.op = "boardgame" ->
           Op(<<"b", "o", "a", "r", "d", "g", "a", "m", "e">>, a.options, None, Some(to_strings(a.ids)))
      [] a.op = "collection" ->
           Op(<<"c", "o", "l", "l", "e", "c", "t", "i", "o", "n">>, a.options, None, Some(<<a.text>>))
      [] a.op = "thread" ->
           Op(<<"t", "h", "r", "e", "a", "d">>, a.options, None, Some(<<to_string(a.id)>>))
      [] a.op = "geeklist" ->
           Op(<<"t", "h", "r", "e", "a", "d">>, a.options, None, Some(<<to_string(a.id)>>))

\* Client1_op_b, if collection_b sent the username as a parameter, as
\* Client2 does.
Client1_op_b_username_param(a) ==
    IF a.op = "collection"
    THEN Op(<<"c", "o", "l", "l", "e", "c", "t", "i", "o", "n">>, a.options,
            Some([k \in {USERNAME} |-> a.text]), None)
    ELSE Client1_op(a)

\* The blocking operations of Client1.
Client1_op_b(a) ==
    CASE a.op = "search" ->
           Op(<<"s", "e", "a", "r", "c", "h">>, a.options,
              Some([k \in {<<"s", "e", "a", "r", "c", "h">>} |-> a.text]), None)
      [] a.op = "boardgame" ->
           Op(<<"b", "o", "a", "r", "d", "g", "a", "m", "e">>, a.options, None, Some(to_strings(a.ids)))
      [] a.op = "collection" ->
           Op(<<"c", "o", "l", "l", "e", "c", "t", "i", "o", "n">>, a.options, None, Some(<<a.text>>))
      [] a.op = "thread" ->
           Op(<<"t", "h", "r", "e", "a", "d">>, a.options, None, Some(<<to_string(a.id)>>))
      [] a.op = "geeklist" ->
           Op(<<"t", "h", "r", "e", "a", "d">>, a.options, None, Some(<<to_string(a.id)>>))

\* Client2::thing, if the caller's options were inserted over the forced
\* parameters.
Client2_thing_op_caller_last(ids, ttypes, options) ==
    Op(<<"t", "h", "i", "n", "g">>,
       Some([k \in {ID, TYPE} |->
               IF k = ID THEN join(to_strings(ids), <<",">>)
               ELSE join([i \in DOMAIN ttypes |-> Thing_as_str(ttypes[i])], <<",">>)]),
       options, None)

\* Client2::thing
Client2_thing_op(ids, ttypes, options) ==
    Op(<<"t", "h", "i", "n", "g">>, options,
       Some([k \in {ID, TYPE} |->
               IF k = ID THEN join(to_strings(ids), <<",">>)
               ELSE join([i \in DOMAIN ttypes |-> Thing_as_str(ttypes[i])], <<",">>)]),
       None)

\* Client2::thing_b
Client2_thing_b_op(ids, ttypes, options) ==
    Op(<<"t", "h", "i", "n", "g">>, options,
       Some([k \in {ID, TYPE} |->
               IF k = ID THEN join(to_strings(ids), <<",">>)
               ELSE join([i \in DOMAIN ttypes |-> Thing_as_str(ttypes[i])], <<",">>)]),
       None)

\* Client2::family
Client2_family_op(ids, ttypes) ==
    Op(<<"f", "a", "m", "i", "l", "y">>, None,
       Some([k \in {ID, TYPE} |->
               IF k = ID THEN join(to_strings(ids), <<",">>)
               ELSE join([i \in DOMAIN ttypes |-> Family_as_str(ttypes[i])], <<",">>)]),
       None)

\* Client2::family_b
Client2_family_b_op(ids, ttypes) ==
    Op(<<"f", "a", "m", "i", "l", "y">>, None,
       Some([k \in {ID, TYPE} |->
               IF k = ID THEN join(to_strings(ids), <<",">>)
               ELSE join([i \in DOMAIN ttypes |-> Family_as_str(ttypes[i])], <<",">>)]),
       None)

\* The non-blocking operations of Client2, each with the arguments a.
Client2_op(a) ==
    CASE a.op = "search" ->
           Op(<<"s", "e", "a", "r", "c", "h">>, a.options,
              Client2_search_defaults(a.text, a.types), None)
      [] a.op = "thing" -> Client2_thing_op(a.ids, a.types, a.options)
      [] a.op = "boardgame" -> Client2_thing_op(a.ids, <<"BoardGame">>, a.options)
      [] a.op = "boardgameexpansion" -> Client2_thing_op(a.ids, <<"BoardGameExpansion">>, a.options)
      [] a.op = "boardgameaccessory" -> Client2_thing_op(a.ids, <<"BoardGameAccessory">>, a.options)
      [] a.op = "videogame" -> Client2_thing_op(a.ids, <<"VideoGame">>, a.options)
      [] a.op = "rpgitem" -> Client2_thing_op(a.ids, <<"RpgItem">>, a.options)
      [] a.op = "rpgissue" -> Client2_thing_op(a.ids, <<"RpgIssue">>, a.options)
      [] a.op = "family" -> Client2_family_op(a.ids, a.types)
      [] a.op = "rpg" -> Client2_family_op(a.ids, <<"Rpg">>)
      [] a.op = "rpgperiodical" -> Client2_family_op(a.ids, <<"RpgPeriodical">>)
      [] a.op = "boardgamefamily" -> Client2_family_op(a.ids, <<"BoardGameFamily">>)
      [] a.op = "forumlist" ->
           Op(<<"f", "o", "r", "u", "m", "l", "i", "s", "t">>, None,
              Some([k \in {ID, TYPE} |->
                      IF k = ID THEN to_string(a.id)
                      ELSE ThingFamily_as_str(a.kind)]), None)
      [] a.op = "forum" ->
           Op(<<"f", "o", "r", "u", "m", "l", "i", "s", "t">>, a.options,
              Some([k \in {ID} |-> to_string(a.id)]), None)
      [] a.op = "thread" ->
           Op(<<"t", "h", "r", "e", "a", "d">>, a.options,
              Some([k \in {ID} |-> to_string(a.id)]), None)
      [] a.op = "user" ->
           Op(<<"u", "s", "e", "r">>, a.options,
              Some([k \in {<<"n", "a", "m", "e">>} |-> a.text]), None)
      [] a.op = "guild" ->
           Op(<<"g", "u", "i", "l", "d">>, a.options,
              Some([k \in {ID} |-> to_string(a.id)]), None)
      [] a.op = "plays" ->
           LET checked == plays_params(a.username, a.item_id, a.ttype)
           IN  IF checked.tag = "Ok"
               THEN Op(PLAYS, a.options, checked.params, None)
               ELSE NoOp(checked.tag)
      [] a.op = "collection" ->
           Op(<<"c", "o", "l", "l", "e", "c", "t", "i", "o", "n">>, a.options,
              Some([k \in {USERNAME} |-> a.text]), None)
      [] a.op = "hot" ->
           Op(<<"h", "o", "t">>, None,
              Some([k \in {TYPE} |-> Hotness_as_str(a.kind)]), None)

\* The blocking operations of Client2.
Client2_op_b(a) ==
    CASE a.op = "search" ->
           Op(<<"s", "e", "a", "r", "c", "h">>, a.options,
              Client2_search_defaults(a.text, a.types), None)
      [] a.op = "thing" -> Client2_thing_b_op(a.ids, a.types, a.options)
      [] a.op = "boardgame" -> Client2_thing_b_op(a.ids, <<"BoardGame">>, a.options)
      [] a.op = "boardgameexpansion" -> Client2_thing_b_op(a.ids, <<"BoardGameExpansion">>, a.options)
      [] a.op = "boardgameaccessory" -> Client2_thing_b_op(a.ids, <<"BoardGameAccessory">>, a.options)
      [] a.op = "videogame" -> Client2_thing_b_op(a.ids, <<"VideoGame">>, a.options)
      [] a.op = "rpgitem" -> Client2_thing_b_op(a.ids, <<"RpgItem">>, a.options)
      [] a.op = "rpgissue" -> Client2_thing_b_op(a.ids, <<"RpgIssue">>, a.options)
      [] a.op = "family" -> Client2_family_b_op(a.ids, a.types)
      [] a.op = "rpg" -> Client2_family_b_op(a.ids, <<"Rpg">>)
      [] a.op = "rpgperiodical" -> Client2_family_b_op(a.ids, <<"RpgPeriodical">>)
      [] a.op = "boardgamefamily" -> Client2_family_b_op(a.ids, <<"BoardGameFamily">>)
      [] a.op = "forumlist" ->
           Op(<<"f", "o", "r", "u", "m", "l", "i", "s", "t">>, None,
              Some([k \in {ID, TYPE} |->
                      IF k = ID THEN to_string(a.id)
                      ELSE ThingFamily_as_str(a.kind)]), None)
      [] a.op = "forum" ->
           Op(<<"f", "o", "r", "u", "m", "l", "i", "s", "t">>, a.options,
              Some([k \in {ID} |-> to_string(a.id)]), None)
      [] a.op = "thread" ->
           Op(<<"t", "h", "r", "e", "a", "d">>, a.options,
              Some([k \in {ID} |-> to_string(a.id)]), None)
      [] a.op = "user" ->
           Op(<<"u", "s", "e", "r">>, a.options,
              Some([k \in {<<"n", "a", "m", "e">>} |-> a.text]), None)
      [] a.op = "guild" ->
           Op(<<"g", "u", "i", "l", "d">>, a.options,
              Some([k \in {ID} |-> to_string(a.id)]), None)
      [] a.op = "plays" ->
           LET checked == plays_params(a.username, a.item_id, a.ttype)
           IN  IF checked.tag = "Ok"
               THEN Op(PLAYS, a.options, checked.params, None)
               ELSE NoOp(checked.tag)
      [] a.op = "collection" ->
           Op(<<"c", "o", "l", "l", "e", "c", "t", "i", "o", "n">>, a.options,
              Some([k \in {USERNAME} |-> a.text]), None)
      [] a.op = "hot" ->
           Op(<<"h", "o", "t">>, None,
              Some([k \in {TYPE} |-> Hotness_as_str(a.kind)]), None)

\* The arguments of an operation; one that lacks an argument has the
\* value of NoArgs there.
NoArgs ==
    [op |-> "", text |-> <<>>, id |-> 0, ids |-> <<>>, types |-> <<>>,
     kind |-> "", username |-> None, item_id |-> None, ttype |-> None,
     options |-> None]

\* Numeric ids and lists of them, those of two digits and the empty
\* list among them.
OpIds == {7, 12}

OpIdLists == {<<>>, <<1, 2>>, <<12, 1>>}

\* The caller's options: none, one of the caller's own, and some under
\* the keys "id" and "type" that operations force.
OpOptions ==
    {None,
     Some([k \in {<<"x">>} |-> <<"1">>]),
     Some([k \in {ID, TYPE, <<"x">>} |->
             IF k = ID THEN <<"9">> ELSE IF k = TYPE THEN <<"z">> ELSE <<"1">>])}

\* The calls of the operations of Client1.
Client1Args ==
    {[NoArgs EXCEPT !.op = "search", !.text = x, !.options = o] :
        x \in SearchTexts, o \in OpOptions}
    \cup {[NoArgs EXCEPT !.op = "boardgame", !.ids = x, !.options = o] :
        x \in OpIdLists, o \in OpOptions}
    \cup {[NoArgs EXCEPT !.op = "collection", !.text = <<"u">>, !.options = o] :
        o \in OpOptions}
    \cup {[NoArgs EXCEPT !.op = n, !.id = x, !.options = o] :
        n \in {"thread", "geeklist"}, x \in OpIds, o \in OpOptions}

\* The calls of the operations of Client2.
Client2Args ==
    {[NoArgs EXCEPT !.op = "search", !.text = x, !.types = y, !.options = o] :
        x \in SearchTexts, y \in {<<"BoardGame">>, <<"RpgItem", "BoardGame">>},
        o \in OpOptions}
    \cup {[NoArgs EXCEPT !.op = "thing", !.ids = x, !.types = y, !.options = o] :
        x \in OpIdLists, y \in {<<>>, <<"VideoGame">>, <<"RpgIssue", "BoardGame">>},
        o \in OpOptions}
    \cup {[NoArgs EXCEPT !.op = n, !.ids = x, !.options = o] :
        n \in {"boardgame", "boardgameexpansion", "boardgameaccessory",
               "videogame", "rpgitem", "rpgissue"},
        x \in OpIdLists, o \in OpOptions}
    \cup {[NoArgs EXCEPT !.op = "family", !.ids = x, !.types = y] :
        x \in OpIdLists, y \in {<<"Rpg">>, <<"BoardGameFamily", "RpgPeriodical">>}}
    \cup {[NoArgs EXCEPT !.op = n, !.ids = x] :
        n \in {"rpg", "rpgperiodical", "boardgamefamily"}, x \in OpIdLists}
    \cup {[NoArgs EXCEPT !.op = "forumlist", !.id = x, !.kind = y] :
        x \in OpIds, y \in {"Thing", "Family"}}
    \cup {[NoArgs EXCEPT !.op = n, !.id = x, !.options = o] :
        n \in {"forum", "thread", "guild"}, x \in OpIds, o \in OpOptions}
    \cup {[NoArgs EXCEPT !.op = n, !.text = <<"u">>, !.options = o] :
        n \in {"user", "collection"}, o \in OpOptions}
    \cup {[NoArgs EXCEPT !.op = "plays", !.username = x, !.item_id = y,
                         !.ttype = z, !.options = o] :
        x \in Usernames, y \in ItemIds, z \in TTypes, o \in OpOptions}
    \cup {[NoArgs EXCEPT !.op = "hot", !.kind = y] :
        y \in {"BoardGame", "RpgPerson", "VideoGameCompany"}}

\* The keys of the query an operation sends.
OpKeys(d) == DOMAIN merge_opts(d.options, d.defaults)

\* The URL an operation of Client1 hands to its executor.
Client1_op_url(self, d, order) ==
    Client1_get_full_url(self, d.path, d.options, d.defaults, d.addons, order)

\* The URL an operation of Client2 hands to its executor, if it gets
\* that far.
Client2_op_url(self, d, order) ==
    IF d.tag = "Ok"
    THEN Client2_get_full_url(self, d.path, d.options, d.defaults, order)
    ELSE <<>>

\* An operation of Client1 and its blocking variant are given the same
\* arguments and each builds the URL of its request.
Client1_op_run ==
    /\ run = NoRun
    /\ \E a \in Client1Args :
         \E order \in Orders(OpKeys(Client1_op(a))),
            order_b \in Orders(OpKeys(Client1_op_b(a))) :
           run' = [fn |-> "Client1_op", args |-> a,
                   ret |-> [tag |-> "Ok",
                            url |-> Client1_op_url(client1, Client1_op(a), order),
                            tag_b |-> "Ok",
                            url_b |-> Client1_op_url(client1, Client1_op_b(a),
                                                     order_b)]]
    /\ UNCHANGED <<client1, client2, calls>>

\* An operation of Client2 and its blocking variant are given the same
\* arguments and each builds the URL of its request.
Client2_op_run ==
    /\ run = NoRun
    /\ \E a \in Client2Args :
         \E order \in Orders(OpKeys(Client2_op(a))),
            order_b \in Orders(OpKeys(Client2_op_b(a))) :
           run' = [fn |-> "Client2_op", args |-> a,
                   ret |-> [tag |-> Client2_op(a).tag,
                            url |-> Client2_op_url(client2, Client2_op(a), order),
                            tag_b |-> Client2_op_b(a).tag,
                            url_b |-> Client2_op_url(client2, Client2_op_b(a),
                                                     order_b)]]
    /\ UNCHANGED <<client1, client2, calls>>

OpsNext ==
    \/ Client1_op_run
    \/ Client2_op_run

OpsSpec == Init /\ [][OpsNext]_vars

\* url_base + "/" + api_prefix + "/" + the operation segment.
OpStem(self, segment) ==
    self.url_base \o <<"/">> \o self.api_prefix \o <<"/">> \o segment

\* The URLs of the two variants of the operation that was evaluated.
BothUrls == {run.ret.url, run.ret.url_b}

\* C24: the URL geeklist and geeklist_b request starts with url_base,
\* "/", api_prefix, "/geeklist/", the decimal list id and "?", and so is
\* not the URL a thread call requests for that id.
C24_GeeklistSegment ==
    (run.fn = "Client1_op" /\ run.args.op = "geeklist")
    => \A u \in BothUrls :
         /\ IsPrefix(OpStem(client1, <<"g", "e", "e", "k", "l", "i", "s", "t">>) \o <<"/">>
                     \o to_string(run.args.id) \o <<"?">>, u)
         /\ ~IsPrefix(OpStem(client1, <<"t", "h", "r", "e", "a", "d">>) \o <<"/">>
                      \o to_string(run.args.id) \o <<"?">>, u)

\* C25: the URL forum and forum_b request starts with url_base, "/",
\* api_prefix, "/forum?", has the forum id under "id" in its query, and
\* is not a URL of the forumlist operation.
C25_ForumSegment ==
    (run.fn = "Client2_op" /\ run.args.op = "forum")
    => \A u \in BothUrls :
         /\ IsPrefix(OpStem(client2, <<"f", "o", "r", "u", "m">>) \o <<"?">>, u)
         /\ <<ID, to_string(run.args.id)>> \in decode_qs(query(u))
         /\ ~IsPrefix(OpStem(client2, <<"f", "o", "r", "u", "m", "l", "i", "s", "t">>) \o <<"?">>, u)

\* The wire string of the type each convenience wrapper of thing stands
\* for.
WrapperType ==
    [n \in {"boardgame", "boardgameexpansion", "boardgameaccessory", "videogame", "rpgitem", "rpgissue"} |->
        CASE n = "boardgame" -> <<"b", "o", "a", "r", "d", "g", "a", "m", "e">>
          [] n = "boardgameexpansion" -> <<"b", "o", "a", "r", "d", "g", "a", "m", "e", "e", "x", "p", "a", "n", "s", "i", "o", "n">>
          [] n = "boardgameaccessory" -> <<"b", "o", "a", "r", "d", "g", "a", "m", "e", "a", "c", "c", "e", "s", "s", "o", "r", "y">>
          [] n = "videogame" -> <<"v", "i", "d", "e", "o", "g", "a", "m", "e">>
          [] n = "rpgitem" -> <<"r", "p", "g", "i", "t", "e", "m">>
          [] n = "rpgissue" -> <<"r", "p", "g", "i", "s", "s", "u", "e">>]

\* The value of "type" the claim asks for: the wire strings of the
\* given types, or of the wrapper's type, with "," between them.
ForcedType(a) ==
    IF a.op = "thing"
    THEN join([i \in DOMAIN a.types |-> Thing_as_str(a.types[i])], <<",">>)
    ELSE WrapperType[a.op]

\* C26: the query thing, thing_b and their wrappers send decodes to "id"
\* with the decimal ids joined by "," in their order, "type" with the wire
\* strings of the types joined by "," in their order, whatever the
\* caller's options have under "id" and "type", and every other option
\* of the caller with its value, and to nothing else.
C26_ThingForcesIdAndType ==
    (run.fn = "Client2_op" /\ run.args.op \in {"thing"} \cup DOMAIN WrapperType)
    => \A u \in BothUrls :
         LET wire == decode_qs(query(u))
             others == Keys(run.args.options) \ {ID, TYPE}
         IN  /\ \A kv \in wire :
                  /\ kv[1] = ID => kv[2] = join(to_strings(run.args.ids), <<",">>)
                  /\ kv[1] = TYPE => kv[2] = ForcedType(run.args)
             /\ {ID, TYPE} \subseteq {kv[1] : kv \in wire}
             /\ \A k \in others : <<k, run.args.options[1][k]>> \in wire
             /\ Len(qs_parts(query(u))) = 2 + Cardinality(others)

\* The wrapper boardgame was given the ids 12 and 1 and options with
\* other values under "id" and "type", and its query is the forced id
\* and type and the caller's "x".
C26_Witness ==
    /\ run.fn = "Client2_op"
    /\ run.args.op = "boardgame"
    /\ run.args.ids = <<12, 1>>
    /\ Keys(run.args.options) = {ID, TYPE, <<"x">>}
    /\ decode_qs(query(run.ret.url)) =
         {<<ID, <<"1", "2", ",", "1">>>>, <<TYPE, <<"b", "o", "a", "r", "d", "g", "a", "m", "e">>>>,
          <<<<"x">>, <<"1">>>>}

\* What is ahead of the query of a URL: the operation segment and the
\* path add-ons.
path_part(url) == SubSeq(url, 1, rfind(url, "?"))

\* C27: an operation and its blocking variant, given the same arguments,
\* both build a URL or both end without one, and the two URLs have the
\* same operation segment and path add-ons and the same query pairs.
C27_VariantsBuildSameUrl ==
    run.fn \in {"Client1_op", "Client2_op"}
    => /\ run.ret.tag = run.ret.tag_b
       /\ path_part(run.ret.url) = path_part(run.ret.url_b)
       /\ decode_qs(query(run.ret.url)) = decode_qs(query(run.ret.url_b))
       /\ Len(qs_parts(query(run.ret.url))) = Len(qs_parts(query(run.ret.url_b)))

\* collection and collection_b of Client1 were given a username and
\* options of three keys, and built URLs with the username as add-on and
\* the three pairs in different orders.
C27_Witness ==
    /\ run.fn = "Client1_op"
    /\ run.args.op = "collection"
    /\ Keys(run.args.options) = {ID, TYPE, <<"x">>}
    /\ run.ret.url # run.ret.url_b
    /\ path_part(run.ret.url) = OpStem(client1, <<"c", "o", "l", "l", "e", "c", "t", "i", "o", "n">>) \o <<"/", "u", "?">>

====
